---- MODULE Spec2Model ----
(***************************************************************************)
(* Raffle program (anchor_project/programs/raffle).                        *)
(*                                                                         *)
(* One raffle state account and the instructions that lib.rs dispatches:   *)
(* create_raffle, buy_tickets, draw_winner, draw_winner_callback,          *)
(* claim_prize and close_raffle.  Every instruction is one atomic step     *)
(* (a failed transaction leaves the ledger as it was); the outcome of the  *)
(* latest call is kept in `last` so that properties can speak about the    *)
(* error a call returned.                                                  *)
(*                                                                         *)
(* Error names are the identifiers of the source.  Where the prose         *)
(* specification uses another word for the same rejection the mapping is:  *)
(*   RaffleEnded            -> RaffleHasEnded         (buy_tickets.rs:59)  *)
(*   InsufficientCapacity   -> InsufficientTickets    (buy_tickets.rs:64)  *)
(*   RaffleNotOver          -> RaffleNotEnded         (draw_winner.rs:22)  *)
(*   WinnerAlreadyDrawn     -> WinnerAlreadyDrawn     (draw_winner.rs:13)  *)
(*                             CallbackAlreadyInvoked (callback.rs:55)     *)
(*   DrawNotStarted         -> DrawWinnerNotStarted   (callback.rs:54)     *)
(*   Unauthorized (oracle)  -> CallbackNotInvokedByVRF (callback.rs:18)    *)
(*   NotWinner              -> InvalidArgument        (claim_prize.rs:31)  *)
(*   RecordInvalid          -> RaffleStateDataInvalid (state.rs:70,80,84)  *)
(*   EndTimeInPast          -> RaffleEndTimeInPast    (create_raffle.rs:31)*)
(*   CapacityOverflow       -> RaffleTooLarge         (create_raffle.rs:36)*)
(*   CannotCloseActive      -> CanNotCloseActiveRaffle (close_raffle.rs:37)*)
(*   OnlyManagerOrUpgradeAuthority                                         *)
(*                -> OnlyRaffleManagerOrProgramOwnerCanClose (:27,:40)     *)
(***************************************************************************)
EXTENDS Integers, Sequences, FiniteSets, TLC

(***************************************************************************)
(* Bounds of the model.                                                    *)
(***************************************************************************)
\* Largest value of the unsigned lamport/price type (u64 scaled down).
MaxU64 == 15
\* Largest max_tickets a create_raffle call is given.
MaxTickets == 2
\* Latest value of the cluster clock (unix_timestamp); it starts at 1.
MaxTime == 2
\* Lamports every wallet starts with.
InitLamports == 4
\* Rent-exempt deposit the payer funds the raffle state account with.
RentLamports == 1
\* Number of byte values (the radix) of one randomness byte.
ByteRadix == 2

(***************************************************************************)
(* Identities.                                                             *)
(***************************************************************************)
Wallets == {"alice", "bob", "carol"}
\* ephemeral_vrf_sdk::consts::VRF_PROGRAM_IDENTITY
VRF_PROGRAM_IDENTITY == "vrf_identity"
\* program_data.upgrade_authority_address
UpgradeAuthority == "carol"
\* Pubkey::default(), the all-zero key of an unwritten field
DefaultPubkey == "default"
Signers == Wallets \cup {VRF_PROGRAM_IDENTITY}
\* The wallets that open a raffle
Managers == {"alice"}

\* Option::None of winner_index: Option<u32>
None == -1

\* Inputs of create_raffle
Prices == {1, 2, 8}
EndTimes == 1..MaxTime
\* number_of_tickets of a buy
Counts == 0..(MaxTickets + 1)
\* the 32 randomness bytes of the callback, two little-endian digits kept
Randomness == [1..2 -> 0..(ByteRadix - 1)]

VARIABLES
    exists,               \* the raffle state account is initialised
    closed,               \* the raffle state account has been closed
    raffle_manager,       \* RaffleState.raffle_manager (owner / authority)
    ticket_price,         \* RaffleState.ticket_price: u64
    max_tickets,          \* RaffleState.max_tickets: u32
    end_time,             \* RaffleState.end_time: i64
    entrants,             \* RaffleState.entrants: Vec<Pubkey>
    winner_index,         \* RaffleState.winner_index: Option<u32>
    claimed,              \* RaffleState.claimed
    draw_winner_started,  \* RaffleState.draw_winner_started
    commit_slot,          \* RaffleState.commit_slot
    randomness_account,   \* RaffleState.randomness_account
    raffle_lamports,      \* lamports of the raffle state account
    lamports,             \* lamports of every wallet
    now,                  \* Clock::unix_timestamp
    last,                 \* the latest call: [op, caller, n, err] and the
                          \* further arguments of create_raffle / close_raffle
    raffle_state,         \* a RaffleState value handed to the account codec
    account_data,         \* the data bytes of the account the codec works on
    deserialized          \* what deserialize_from_account returned

record == <<exists, closed, raffle_manager, ticket_price, max_tickets, end_time,
            entrants, winner_index, claimed, draw_winner_started, commit_slot,
            randomness_account>>
balances == <<raffle_lamports, lamports>>
vars == <<exists, closed, raffle_manager, ticket_price, max_tickets, end_time,
          entrants, winner_index, claimed, draw_winner_started, commit_slot,
          randomness_account,
          raffle_lamports, lamports, now, last,
          raffle_state, account_data, deserialized>>
\* The variables of the account codec (state.rs), which the instructions
\* modelled here by their record fields leave alone.
codec_vars == <<raffle_state, account_data, deserialized>>

Call(op, caller, n, err) ==
    [op |-> op, caller |-> caller, n |-> n, err |-> err,
     price |-> 0, end_time |-> 0, account |-> DefaultPubkey]

\* A create_raffle call: n is max_tickets; ticket_price and end_time are kept.
CallCreate(raffle_owner, price, max, end_time_arg, err) ==
    [Call("create_raffle", raffle_owner, max, err)
        EXCEPT !.price = price, !.end_time = end_time_arg]

\* A close_raffle call: the raffle_manager account passed in is kept.
CallClose(signer, raffle_manager_key, n, err) ==
    [Call("close_raffle", signer, n, err) EXCEPT !.account = raffle_manager_key]

\* A rejected instruction: the transaction aborts, nothing is written.
Rejected(call) ==
    /\ last' = call
    /\ UNCHANGED <<record, balances, now, codec_vars>>

Fail(op, caller, n, err) == Rejected(Call(op, caller, n, err))

\* RaffleState::sold_tickets
sold_tickets == Len(entrants)

\* Faulty variant: the product wraps around (wrapping_mul).
checked_mul_Wrapping(a, b) == (a * b) % (MaxU64 + 1)

\* u64::checked_mul: the product, or None when it does not fit
checked_mul(a, b) == IF a * b > MaxU64 THEN None ELSE a * b

(***************************************************************************)
(* The account codec of state.rs.  A Pubkey is its 32 bytes, Option::None  *)
(* of winner is the empty sequence, integers are little-endian bytes.      *)
(***************************************************************************)
\* A RaffleState whose fields are all zero / empty.
ZeroState ==
    [authority |-> [i \in 1..32 |-> 0], ticket_price |-> 0, end_time |-> 0,
     winner |-> <<>>, max_tickets |-> 0, claimed |-> FALSE, entrants |-> <<>>]

\* Err(RaffleStateDataInvalid) / Ok(state) of deserialize_from_account
Invalid == [ok |-> FALSE, state |-> ZeroState]
Valid(state) == [ok |-> TRUE, state |-> state]

\* to_le_bytes of an n-byte unsigned integer and its inverse
RECURSIVE to_le_bytes(_, _)
to_le_bytes(v, n) ==
    IF n = 0 THEN <<>> ELSE <<v % 256>> \o to_le_bytes(v \div 256, n - 1)

RECURSIVE from_le_bytes(_)
from_le_bytes(bytes) ==
    IF bytes = <<>> THEN 0 ELSE Head(bytes) + 256 * from_le_bytes(Tail(bytes))

\* The concatenation of a sequence of byte sequences
RECURSIVE Concat(_)
Concat(seqs) == IF seqs = <<>> THEN <<>> ELSE Head(seqs) \o Concat(Tail(seqs))

\* RaffleState::max_size_in_bytes of a RaffleState value
MaxSizeInBytes(self) == 4 + 32 + 8 + 8 + 33 + 4 + 1 + 4 + (32 * self.max_tickets)

\* BorshSerialize::serialize of the derive on RaffleState: the fields in
\* declaration order; Option is a tag byte and the value, Vec a u32 length
\* and the elements, bool one byte.
serialize(self) ==
    self.authority
    \o to_le_bytes(self.ticket_price, 8)
    \o to_le_bytes(self.end_time, 8)
    \o (IF self.winner = <<>> THEN <<0>> ELSE <<1>> \o self.winner)
    \o to_le_bytes(self.max_tickets, 4)
    \o <<IF self.claimed THEN 1 ELSE 0>>
    \o to_le_bytes(Len(self.entrants), 4)
    \o Concat(self.entrants)

\* BorshDeserialize::try_from_slice of the derive on RaffleState: the
\* fields are read in order and every byte of the slice must be consumed.
try_from_slice(bytes) ==
    IF Len(bytes) < 32 + 8 + 8 + 1 THEN Invalid
    ELSE IF bytes[49] \notin {0, 1} THEN Invalid
    ELSE LET p == IF bytes[49] = 1 THEN 49 + 32 ELSE 49
         IN  IF Len(bytes) < p + 4 + 1 + 4 THEN Invalid
             ELSE IF bytes[p + 5] \notin {0, 1} THEN Invalid
             ELSE LET count == from_le_bytes(SubSeq(bytes, p + 6, p + 9))
                      rest == Len(bytes) - (p + 9)
                  IN  IF rest % 32 # 0 \/ rest \div 32 # count THEN Invalid
                      ELSE Valid(
                        [authority |-> SubSeq(bytes, 1, 32),
                         ticket_price |-> from_le_bytes(SubSeq(bytes, 33, 40)),
                         end_time |-> from_le_bytes(SubSeq(bytes, 41, 48)),
                         winner |-> IF bytes[49] = 1
                                    THEN SubSeq(bytes, 50, 81) ELSE <<>>,
                         max_tickets |->
                             from_le_bytes(SubSeq(bytes, p + 1, p + 4)),
                         claimed |-> bytes[p + 5] = 1,
                         entrants |->
                             [i \in 1..count |->
                                 SubSeq(bytes, p + 9 + 32 * (i - 1) + 1,
                                        p + 9 + 32 * i)]])

\* RaffleState::serialize_to_account: [ok, data], data being the account
\* data afterwards.  Only the prefix and the serialized bytes are written.
serialize_to_account(self, data) ==
    LET raffle_state_bytes == serialize(self)
        len == Len(raffle_state_bytes)
    IN  IF ~(Len(data) >= 4 + len)
        THEN [ok |-> FALSE, data |-> data]
        ELSE [ok |-> TRUE,
              data |-> to_le_bytes(len, 4)
                       \o raffle_state_bytes
                       \o SubSeq(data, 4 + len + 1, Len(data))]

\* Faulty variant: the whole account data after the prefix is decoded.
DeserializeSliceEnd_WholeAccount(data, length) == Len(data)

\* The end of the slice account_data[4..4 + length]
DeserializeSliceEnd(data, length) == 4 + length

\* RaffleState::deserialize_from_account
deserialize_from_account(data) ==
    IF ~(Len(data) >= 4) THEN Invalid
    ELSE LET length == from_le_bytes(SubSeq(data, 1, 4))
         IN  IF ~(Len(data) - 4 >= length) THEN Invalid
             ELSE try_from_slice(
                      SubSeq(data, 5, DeserializeSliceEnd(data, length)))

\* The account as create_raffle leaves it / as the runtime zeroes it.
ZeroRecord ==
    /\ raffle_manager' = DefaultPubkey
    /\ ticket_price' = 0
    /\ max_tickets' = 0
    /\ end_time' = 0
    /\ entrants' = <<>>
    /\ winner_index' = None
    /\ claimed' = FALSE
    /\ draw_winner_started' = FALSE
    /\ commit_slot' = 0
    /\ randomness_account' = DefaultPubkey

\* The raffle state account before create_raffle, the wallets and the clock.
InitRaffle ==
    /\ exists = FALSE
    /\ closed = FALSE
    /\ raffle_manager = DefaultPubkey
    /\ ticket_price = 0
    /\ max_tickets = 0
    /\ end_time = 0
    /\ entrants = <<>>
    /\ winner_index = None
    /\ claimed = FALSE
    /\ draw_winner_started = FALSE
    /\ commit_slot = 0
    /\ randomness_account = DefaultPubkey
    /\ raffle_lamports = 0
    /\ lamports = [w \in Wallets |-> InitLamports]
    /\ now = 1
    /\ last = Call("init", DefaultPubkey, 0, "Ok")

Init ==
    /\ InitRaffle
    /\ raffle_state = ZeroState
    /\ account_data = <<>>
    /\ deserialized = Invalid

\* The cluster clock advances.
Tick ==
    /\ now < MaxTime
    /\ now' = now + 1
    /\ last' = Call("tick", DefaultPubkey, 0, "Ok")
    /\ UNCHANGED <<record, balances, codec_vars>>

(***************************************************************************)
(* create_raffle                                                           *)
(***************************************************************************)
\* The end-time check of create_raffle_impl: it compares the clock with the
\* end_time field of the account Anchor has just initialised (all zero),
\* not with the end_time argument.
CreateEndTimeOk(end_time_arg) == now > end_time

CreateRaffle(raffle_owner, price, max, end_time_arg) ==
    /\ ~exists /\ ~closed
    /\ IF lamports[raffle_owner] < RentLamports
       THEN Rejected(CallCreate(raffle_owner, price, max, end_time_arg,
                                "InsufficientLamports"))
       ELSE IF ~CreateEndTimeOk(end_time_arg)
       THEN Rejected(CallCreate(raffle_owner, price, max, end_time_arg,
                                "RaffleEndTimeInPast"))
       ELSE IF checked_mul(price, max) = None
       THEN Rejected(CallCreate(raffle_owner, price, max, end_time_arg,
                                "RaffleTooLarge"))
       ELSE /\ exists' = TRUE
            /\ closed' = FALSE
            /\ raffle_manager' = raffle_owner
            /\ ticket_price' = price
            /\ end_time' = end_time_arg
            /\ winner_index' = None
            /\ max_tickets' = max
            /\ claimed' = FALSE
            /\ entrants' = <<>>
            /\ draw_winner_started' = FALSE
            /\ commit_slot' = 0
            /\ randomness_account' = DefaultPubkey
            /\ lamports' = [lamports EXCEPT ![raffle_owner] = @ - RentLamports]
            /\ raffle_lamports' = raffle_lamports + RentLamports
            /\ last' = CallCreate(raffle_owner, price, max, end_time_arg, "Ok")
            /\ UNCHANGED <<now, codec_vars>>

(***************************************************************************)
(* buy_tickets                                                             *)
(***************************************************************************)
\* Faulty variants: the end time is not compared with the clock / the
\* tickets sold are not compared with max_tickets.
BuyNotEnded_NoClock == Len(entrants) < max_tickets
BuyNotEnded_TimeOnly == now < end_time
\* Faulty variant: tickets are still sold at the end time itself.
BuyNotEnded_Inclusive == Len(entrants) < max_tickets /\ now <= end_time

\* First constraint of BuyTickets.raffle_state: the raffle has not ended.
BuyNotEnded == Len(entrants) < max_tickets /\ now < end_time

\* Faulty variants: the remaining tickets are not checked / the bound is strict.
BuyFits_NoCheck(n) == TRUE
BuyFits_Strict(n) == Len(entrants) + n < max_tickets

\* Second constraint of BuyTickets.raffle_state: enough tickets are left.
BuyFits(n) == Len(entrants) + n <= max_tickets

\* iter::repeat(holder).take(n)
Repeat(holder, n) == [i \in 1..n |-> holder]

\* RaffleState::reserve_tickets: <<accepted, entrants afterwards>>
reserve_tickets(holder, num_tickets) ==
    LET new_total == sold_tickets + num_tickets
    IN  IF new_total <= max_tickets
        THEN <<TRUE, entrants \o Repeat(holder, num_tickets)>>
        ELSE <<FALSE, entrants>>

\* Faulty variant: one copy of the buyer is appended whatever the count.
BuyAppend_OneCopy(buyer, n) == entrants \o <<buyer>>

\* The entrants vector after buy_tickets_impl has extended it.
BuyAppend(buyer, n) == entrants \o Repeat(buyer, n)

\* Faulty variant: one ticket is charged whatever the count.
BuyTransferAmount_OneTicket(total_price) == ticket_price

\* The lamports the system transfer moves for n tickets.
BuyTransferAmount(total_price) == total_price

BuyTickets(buyer, n) ==
    /\ exists
    /\ IF ~BuyNotEnded
       THEN Fail("buy_tickets", buyer, n, "RaffleHasEnded")
       ELSE IF ~BuyFits(n)
       THEN Fail("buy_tickets", buyer, n, "InsufficientTickets")
       ELSE LET total_price == checked_mul(ticket_price, n)
            IN  IF total_price = None
                THEN Fail("buy_tickets", buyer, n, "Panic")
                ELSE IF lamports[buyer] < BuyTransferAmount(total_price)
                THEN Fail("buy_tickets", buyer, n, "InsufficientLamports")
                ELSE /\ lamports' = [lamports EXCEPT
                                        ![buyer] = @ - BuyTransferAmount(total_price)]
                     /\ raffle_lamports' =
                            raffle_lamports + BuyTransferAmount(total_price)
                     /\ entrants' = BuyAppend(buyer, n)
                     /\ last' = Call("buy_tickets", buyer, n, "Ok")
                     /\ UNCHANGED <<exists, closed, raffle_manager, ticket_price,
                                    max_tickets, end_time, winner_index, claimed,
                                    draw_winner_started, commit_slot,
                                    randomness_account, now, codec_vars>>

(***************************************************************************)
(* draw_winner                                                             *)
(***************************************************************************)
\* RaffleState::is_raffle_over: the raffle is full or its end time has come.
is_raffle_over == Len(entrants) >= max_tickets \/ now >= end_time

\* usize::from_le_bytes(randomness[0..16].try_into().unwrap()): the slice
\* holds 16 bytes and usize::from_le_bytes takes size_of::<usize>() = 8, so
\* the conversion to the array fails and unwrap panics.
SliceToUsizeBytes(slice_len, usize_len) == slice_len = usize_len

\* Faulty variant: a raffle without entrants passes.
DrawHasEntrants_NoCheck == TRUE

\* require!(raffle_state.entrants.len() > 0, ..) of draw_winner_impl
DrawHasEntrants == Len(entrants) > 0

\* draw_winner_impl as dispatched by lib.rs draw_winner.  The accounts of
\* DrawWinner hold no signer: `caller` is whoever submits the transaction.
\* acct, seed_slot and revealed describe the randomness account passed in.
DrawWinner(caller) ==
    /\ exists
    /\ IF winner_index # None
       THEN Fail("draw_winner", caller, 0, "WinnerAlreadyDrawn")
       ELSE IF ~DrawHasEntrants
       THEN Fail("draw_winner", caller, 0, "RaffleStateDataInvalid")
       ELSE IF ~is_raffle_over
       THEN Fail("draw_winner", caller, 0, "RaffleNotEnded")
       ELSE IF ~(commit_slot # 0)
       THEN Fail("draw_winner", caller, 0, "RandomnessNotRequested")
       ELSE IF ~(randomness_account # DefaultPubkey)
       THEN Fail("draw_winner", caller, 0, "RandomnessNotRequested")
       ELSE \E acct \in {DefaultPubkey, "randomness"},
               seed_slot \in 0..1, revealed \in BOOLEAN :
            IF acct # randomness_account
            THEN Fail("draw_winner", caller, 0, "InvalidRandomnessAccount")
            ELSE IF seed_slot # commit_slot
            THEN Fail("draw_winner", caller, 0, "RandomnessExpired")
            ELSE IF ~revealed
            THEN Fail("draw_winner", caller, 0, "RandomnessNotResolved")
            ELSE IF ~SliceToUsizeBytes(16, 8)
            THEN Fail("draw_winner", caller, 0, "Panic")
            ELSE \E random_num \in 0..(ByteRadix * ByteRadix - 1) :
                 /\ winner_index' = random_num % Len(entrants)
                 /\ last' = Call("draw_winner", caller, 0, "Ok")
                 /\ UNCHANGED <<exists, closed, raffle_manager, ticket_price,
                                max_tickets, end_time, entrants, claimed,
                                draw_winner_started, commit_slot,
                                randomness_account, balances, now, codec_vars>>

\* The start of the VRF draw that lib.rs documents for draw_winner ("marks
\* the draw process as started"): the step that sets draw_winner_started,
\* the flag DrawWinnerCallback requires.  No handler of the source assigns
\* the flag, so the step follows the Request-draw contract of the prose
\* specification; its check for entrants is the one draw_winner_impl makes.
StartDrawWinner(caller) ==
    /\ exists
    /\ IF caller # raffle_manager
       THEN Fail("start_draw_winner", caller, 0, "Unauthorized")
       ELSE IF ~is_raffle_over
       THEN Fail("start_draw_winner", caller, 0, "RaffleNotOver")
       ELSE IF ~DrawHasEntrants
       THEN Fail("start_draw_winner", caller, 0, "NoEntrants")
       ELSE IF winner_index # None
       THEN Fail("start_draw_winner", caller, 0, "WinnerAlreadyDrawn")
       ELSE /\ draw_winner_started' = TRUE
            /\ last' = Call("start_draw_winner", caller, 0, "Ok")
            /\ UNCHANGED <<exists, closed, raffle_manager, ticket_price, max_tickets,
                           end_time, entrants, winner_index, claimed,
                           commit_slot, randomness_account, balances, now, codec_vars>>

(***************************************************************************)
(* draw_winner_callback                                                    *)
(***************************************************************************)
\* ephemeral_vrf_sdk::rnd::random_u64: the little-endian value of the
\* leading randomness bytes.
random_u64(randomness) == randomness[1] + ByteRadix * randomness[2]

\* Faulty variant: a callback is accepted although a winner is set.
CallbackWinnerUnset_NoCheck == TRUE

\* Faulty variant: a callback is accepted although the draw was not started.
CallbackStarted_NoCheck == TRUE

\* Constraints of DrawWinnerCallback.raffle_state, in declaration order.
CallbackStarted == draw_winner_started
CallbackWinnerUnset == winner_index = None

\* Faulty variant: any signer passes for the VRF program identity.
CallbackFromVrf_AnySigner(vrf_program_identity) ==
    vrf_program_identity \in Signers

\* The identity check of draw_winner_callback_impl.
CallbackFromVrf(vrf_program_identity) ==
    vrf_program_identity = VRF_PROGRAM_IDENTITY

\* Faulty variant: the reduction is off by one.
CallbackWinnerIndex_OffByOne(random_num) == random_num % (Len(entrants) + 1)

\* random_num % raffle_state.entrants.len()
CallbackWinnerIndex(random_num) == random_num % Len(entrants)

DrawWinnerCallback(vrf_program_identity, randomness) ==
    /\ exists
    /\ IF ~CallbackStarted
       THEN Fail("draw_winner_callback", vrf_program_identity, 0,
                 "DrawWinnerNotStarted")
       ELSE IF ~CallbackWinnerUnset
       THEN Fail("draw_winner_callback", vrf_program_identity, 0,
                 "CallbackAlreadyInvoked")
       ELSE IF ~CallbackFromVrf(vrf_program_identity)
       THEN Fail("draw_winner_callback", vrf_program_identity, 0,
                 "CallbackNotInvokedByVRF")
       ELSE IF Len(entrants) = 0
       THEN Fail("draw_winner_callback", vrf_program_identity, 0, "Panic")
       ELSE /\ winner_index' = CallbackWinnerIndex(random_u64(randomness))
            /\ last' = Call("draw_winner_callback", vrf_program_identity,
                            random_u64(randomness), "Ok")
            /\ UNCHANGED <<exists, closed, raffle_manager, ticket_price, max_tickets,
                           end_time, entrants, claimed, draw_winner_started,
                           commit_slot, randomness_account, balances, now, codec_vars>>

(***************************************************************************)
(* claim_prize                                                             *)
(***************************************************************************)
\* Option::None of winner: Option<Pubkey>
NoPubkey == "none"

\* RaffleState.winner as claim_prize reads it: the entrant that winner_index
\* selects (Vec indices start at 0, sequence indices at 1).
winner == IF winner_index = None THEN NoPubkey ELSE entrants[winner_index + 1]

\* RaffleState::max_size_in_bytes: the size of the account data
max_size_in_bytes == 4 + 32 + 8 + 8 + 33 + 4 + 1 + 4 + (32 * max_tickets)

\* Length of the Borsh serialisation of the record (raffle_state_bytes.len())
raffle_state_len ==
    32 + 8 + 8 + (IF winner = NoPubkey THEN 1 ELSE 33) + 4 + 1 + 4
       + (32 * Len(entrants))

\* The length checks of RaffleState::deserialize_from_account
deserialize_from_account_ok ==
    /\ max_size_in_bytes >= 4
    /\ max_size_in_bytes >= 4 + raffle_state_len

\* The length check of RaffleState::serialize_to_account
serialize_to_account_ok == max_size_in_bytes >= 4 + raffle_state_len

\* Faulty variant: the prize is the price of one ticket.
prize_amount_OneTicket(wrap) == ticket_price

\* RaffleState::prize_amount: an unchecked u64 product.  On overflow the
\* build decides: it wraps (wrap = TRUE) or panics (None).
prize_amount(wrap) ==
    LET p == ticket_price * Len(entrants)
    IN  IF p <= MaxU64 THEN p
        ELSE IF wrap THEN p % (MaxU64 + 1) ELSE None

\* Faulty variants: a check of claim_prize is missing.
ClaimWinnerDrawn_NoCheck == TRUE
ClaimNotYetClaimed_NoCheck == TRUE
ClaimIsWinner_AnySigner(winner_key) == winner # NoPubkey

\* The checks of claim_prize, in the order of the code.
ClaimWinnerDrawn == winner # NoPubkey
ClaimIsWinner(winner_key) == winner_key = winner
ClaimNotYetClaimed == ~claimed

\* u64::checked_sub / u64::checked_add
checked_sub(a, b) == IF a < b THEN None ELSE a - b
checked_add(a, b) == IF a + b > MaxU64 THEN None ELSE a + b

ClaimPrize(winner_key, wrap) ==
    /\ exists
    /\ IF ~deserialize_from_account_ok
       THEN Fail("claim_prize", winner_key, 0, "RaffleStateDataInvalid")
       ELSE IF ~ClaimWinnerDrawn
       THEN Fail("claim_prize", winner_key, 0, "WinnerNotYetDrawn")
       ELSE IF ~ClaimIsWinner(winner_key)
       THEN Fail("claim_prize", winner_key, 0, "InvalidArgument")
       ELSE IF ~ClaimNotYetClaimed
       THEN Fail("claim_prize", winner_key, 0, "PrizeAlreadyClaimed")
       ELSE IF prize_amount(wrap) = None
       THEN Fail("claim_prize", winner_key, 0, "Panic")
       ELSE LET prize == prize_amount(wrap)
                new_raffle_balance == checked_sub(raffle_lamports, prize)
                new_winner_balance == checked_add(lamports[winner_key], prize)
            IN  IF new_raffle_balance = None
                THEN Fail("claim_prize", winner_key, prize, "InsufficientFunds")
                ELSE IF new_winner_balance = None
                THEN Fail("claim_prize", winner_key, prize, "InvalidArgument")
                ELSE IF ~serialize_to_account_ok
                THEN Fail("claim_prize", winner_key, prize,
                          "RaffleStateDataInvalid")
                ELSE /\ raffle_lamports' = new_raffle_balance
                     /\ lamports' = [lamports EXCEPT
                                        ![winner_key] = new_winner_balance]
                     /\ claimed' = TRUE
                     /\ last' = Call("claim_prize", winner_key, prize, "Ok")
                     /\ UNCHANGED <<exists, closed, raffle_manager, ticket_price,
                                    max_tickets, end_time, entrants,
                                    winner_index, draw_winner_started,
                                    commit_slot, randomness_account, now, codec_vars>>

(***************************************************************************)
(* close_raffle                                                            *)
(***************************************************************************)
\* Faulty variants: a constraint of CloseRaffle.raffle_state is missing.
CloseNotActive_NoCheck == TRUE
CloseNotActive_Unsold == entrants = <<>>
CloseAuthorized_AnySigner(signer) == signer \in Wallets

\* Constraints of CloseRaffle.raffle_state, in the order Anchor checks them:
\* has_one first, then the two constraint expressions as declared.
CloseHasOne(raffle_manager_key) == raffle_manager = raffle_manager_key
CloseNotActive == claimed \/ entrants = <<>>
CloseAuthorized(signer) ==
    raffle_manager = signer \/ UpgradeAuthority = signer

\* close = raffle_manager: the account's lamports go to raffle_manager and
\* the account is zeroed.
CloseRaffle(signer, raffle_manager_key) ==
    /\ exists
    /\ IF ~CloseHasOne(raffle_manager_key)
       THEN Rejected(CallClose(signer, raffle_manager_key, 0,
                               "OnlyRaffleManagerOrProgramOwnerCanClose"))
       ELSE IF ~CloseNotActive
       THEN Rejected(CallClose(signer, raffle_manager_key, 0,
                               "CanNotCloseActiveRaffle"))
       ELSE IF ~CloseAuthorized(signer)
       THEN Rejected(CallClose(signer, raffle_manager_key, 0,
                               "OnlyRaffleManagerOrProgramOwnerCanClose"))
       ELSE /\ exists' = FALSE
            /\ closed' = TRUE
            /\ ZeroRecord
            /\ lamports' = [lamports EXCEPT
                               ![raffle_manager_key] = @ + raffle_lamports]
            /\ raffle_lamports' = 0
            /\ last' = CallClose(signer, raffle_manager_key, raffle_lamports,
                                  "Ok")
            /\ UNCHANGED <<now, codec_vars>>

Next ==
    \/ Tick
    \/ \E o \in Managers, p \in Prices, m \in 0..MaxTickets, e \in EndTimes :
          CreateRaffle(o, p, m, e)
    \/ \E b \in Wallets, n \in Counts : BuyTickets(b, n)
    \/ \E c \in Wallets : DrawWinner(c)
    \/ \E c \in Wallets : StartDrawWinner(c)
    \/ \E c \in Signers, r \in Randomness : DrawWinnerCallback(c, r)
    \/ \E w \in Wallets, wrap \in BOOLEAN : ClaimPrize(w, wrap)
    \/ \E c \in Wallets, m \in Wallets : CloseRaffle(c, m)

Spec == Init /\ [][Next]_vars

(***************************************************************************)
(* The raffle under fair scheduling: the clock advances, and the manager,  *)
(* the VRF identity and the winner each submit the instruction that is     *)
(* theirs to submit whenever it would succeed.                             *)
(***************************************************************************)
\* The manager starts the draw.
ManagerStartsDraw ==
    StartDrawWinner(raffle_manager) /\ last'.err = "Ok"

\* The VRF identity delivers the randomness.
VrfCallsBack ==
    \E r \in Randomness :
        DrawWinnerCallback(VRF_PROGRAM_IDENTITY, r) /\ last'.err = "Ok"

\* The winner claims the prize.
WinnerClaims ==
    /\ winner \in Wallets
    /\ \E wrap \in BOOLEAN : ClaimPrize(winner, wrap) /\ last'.err = "Ok"

\* The manager closes the raffle.
ManagerCloses ==
    /\ raffle_manager \in Wallets
    /\ CloseRaffle(raffle_manager, raffle_manager) /\ last'.err = "Ok"

Fairness ==
    /\ WF_vars(Tick)
    /\ WF_vars(ManagerStartsDraw)
    /\ WF_vars(VrfCallsBack)
    /\ WF_vars(WinnerClaims)
    /\ WF_vars(ManagerCloses)

FairSpec == Init /\ [][Next]_vars /\ Fairness

(***************************************************************************)
(* The account codec on its own: a RaffleState is serialized into account  *)
(* data of the size max_size_in_bytes gives and deserialized from it, as   *)
(* the test of state.rs does.                                              *)
(***************************************************************************)
\* The public keys, ticket prices / end times (one and two significant
\* bytes) and the bytes an account holds before it is written.
Pubkeys == {[i \in 1..32 |-> b] : b \in 1..Cardinality(Wallets)}
CodecAmounts == {1, 258}
FillBytes == {0, 127}

\* The RaffleState values with at most max_tickets entrants.
RaffleStates ==
    {s \in [authority : Pubkeys,
            ticket_price : CodecAmounts,
            end_time : CodecAmounts,
            winner : {<<>>} \cup Pubkeys,
            max_tickets : 0..MaxTickets,
            claimed : BOOLEAN,
            entrants : UNION {[1..k -> Pubkeys] : k \in 0..MaxTickets}] :
        Len(s.entrants) <= s.max_tickets}

CodecInit ==
    /\ InitRaffle
    /\ raffle_state \in RaffleStates
    /\ \E fill \in FillBytes :
          account_data = [i \in 1..MaxSizeInBytes(raffle_state) |-> fill]
    /\ deserialized = Invalid

\* state.serialize_to_account(account_data.as_mut_slice())
SerializeToAccount ==
    /\ last.op = "init"
    /\ LET result == serialize_to_account(raffle_state, account_data)
       IN  /\ account_data' = result.data
           /\ last' = Call("serialize_to_account", DefaultPubkey,
                           Len(serialize(raffle_state)),
                           IF result.ok THEN "Ok" ELSE "RaffleStateDataInvalid")
    /\ UNCHANGED <<record, balances, now, raffle_state, deserialized>>

\* RaffleState::deserialize_from_account(account_data.as_slice())
DeserializeFromAccount ==
    /\ last.op = "serialize_to_account" /\ last.err = "Ok"
    /\ LET result == deserialize_from_account(account_data)
       IN  /\ deserialized' = result
           /\ last' = Call("deserialize_from_account", DefaultPubkey, 0,
                           IF result.ok THEN "Ok" ELSE "RaffleStateDataInvalid")
    /\ UNCHANGED <<record, balances, now, raffle_state, account_data>>

CodecNext == SerializeToAccount \/ DeserializeFromAccount

CodecSpec == CodecInit /\ [][CodecNext]_vars

(***************************************************************************)
(* Properties                                                              *)
(***************************************************************************)
\* The step is a call of instruction op (every step records its own op).
Called(op) == last'.op = op

\* C1: in every reachable state the number of entrants is at most
\* max_tickets, the capacity fixed at creation; reserve_tickets never
\* returns a longer vector either.
C1_EntrantsWithinCapacity ==
    /\ Len(entrants) <= max_tickets
    /\ \A h \in Wallets, n \in Counts :
          Len(reserve_tickets(h, n)[2]) <= max_tickets

\* A raffle sold out by a successful buy.
C1_Witness ==
    /\ exists
    /\ max_tickets = MaxTickets
    /\ Len(entrants) = max_tickets
    /\ last.op = "buy_tickets" /\ last.err = "Ok" /\ last.n > 0

\* C2: while the prize is unclaimed the lamports the buys credited to the
\* raffle account (its balance less the rent deposit) equal
\* ticket_price * entrants.len(), so the debit of claim_prize never exceeds
\* the balance and claim_prize never ends with InsufficientFunds.
C2_CreditedEqualsPriceTimesEntrants ==
    /\ (exists /\ ~claimed) =>
          /\ raffle_lamports - RentLamports = ticket_price * Len(entrants)
          /\ ticket_price * Len(entrants) <= raffle_lamports
    /\ ~(last.op = "claim_prize" /\ last.err = "InsufficientFunds")

\* An unclaimed raffle with two paid tickets and a winner ready to claim.
C2_Witness ==
    /\ exists /\ ~claimed
    /\ Len(entrants) = 2 /\ ticket_price = 2
    /\ raffle_lamports = RentLamports + 4
    /\ winner_index # None

Prize == ticket_price * Len(entrants)

\* A successful claim_prize moves exactly Prize from the raffle account to
\* the winner and sets claimed.
ClaimPaysPrize ==
    (Called("claim_prize") /\ last'.err = "Ok") =>
        /\ ~claimed /\ claimed'
        /\ last'.caller = winner
        /\ raffle_lamports' = raffle_lamports - Prize
        /\ lamports' = [lamports EXCEPT ![winner] = @ + Prize]

C5_WinnerIndexValidAndStable ==
    /\ [](winner_index # None =>
            (0 <= winner_index /\ winner_index < Len(entrants)))
    /\ [][ (winner_index # None /\ exists') =>
              winner_index' = winner_index ]_vars

\* The last entrant of a full raffle was drawn and has claimed since.
C5_Witness ==
    /\ Len(entrants) = MaxTickets
    /\ winner_index = Len(entrants) - 1
    /\ last.op = "claim_prize" /\ last.err = "Ok"

\* C6: claimed implies that a winner is set; a claim_prize call made while
\* no winner is set fails with WinnerNotYetDrawn and does not set claimed.
C6_ClaimedOnlyAfterWinner ==
    /\ [](claimed => winner_index # None)
    /\ [][ (Called("claim_prize") /\ winner_index = None) =>
              (last'.err = "WinnerNotYetDrawn" /\ ~claimed') ]_vars

\* The prize of a drawn raffle has been claimed.
C6_Witness ==
    /\ claimed /\ winner_index # None
    /\ last.op = "claim_prize" /\ last.err = "Ok"

\* C7: a buy_tickets call made when the raffle is over (entrants.len() >=
\* max_tickets or now >= end_time) fails with RaffleHasEnded for every
\* count, debits nothing and appends no entrant.
C7_BuyWhenOverRejected ==
    [][ (Called("buy_tickets") /\ is_raffle_over) =>
           /\ last'.err = "RaffleHasEnded"
           /\ UNCHANGED <<entrants, balances>> ]_vars

\* A buy of a raffle with tickets left, rejected because the end time came.
C7_Witness ==
    /\ last.op = "buy_tickets" /\ last.err = "RaffleHasEnded"
    /\ last.n > 0
    /\ Len(entrants) + last.n <= max_tickets
    /\ now >= end_time

\* reserve_tickets appends num_tickets copies and accepts, or changes
\* nothing and refuses when the tickets do not fit.
ReserveTicketsContract ==
    \A h \in Wallets, n \in Counts :
        reserve_tickets(h, n) =
            IF Len(entrants) + n > max_tickets
            THEN <<FALSE, entrants>>
            ELSE <<TRUE, entrants \o [i \in 1..n |-> h]>>

C9_Original ==
    [][ (Called("draw_winner") /\ max_tickets >= 1) =>
          /\ (last'.err = "Ok") => last'.caller = raffle_manager
          /\ (last'.caller # raffle_manager) =>
                /\ last'.err = "Unauthorized"
                /\ UNCHANGED <<draw_winner_started, commit_slot,
                               randomness_account>> ]_vars

\* C10 as stated: draw_winner succeeds only when the raffle is over, has an
\* entrant and has no winner; when exactly one of the three fails it is
\* rejected with RaffleNotOver (RaffleNotEnded in the source), NoEntrants or
\* WinnerAlreadyDrawn respectively; a rejected call leaves the record as it
\* was.  Stated for the raffles that hold at least one ticket.
C10_Original ==
    [][ (Called("draw_winner") /\ max_tickets >= 1) =>
          /\ (last'.err = "Ok") =>
                (is_raffle_over /\ Len(entrants) >= 1 /\ winner_index = None)
          /\ (~is_raffle_over /\ Len(entrants) >= 1 /\ winner_index = None)
                => last'.err = "RaffleNotEnded"
          /\ (is_raffle_over /\ Len(entrants) = 0 /\ winner_index = None)
                => last'.err = "NoEntrants"
          /\ (is_raffle_over /\ Len(entrants) >= 1 /\ winner_index # None)
                => last'.err = "WinnerAlreadyDrawn"
          /\ (last'.err # "Ok") => UNCHANGED record ]_vars

CloseActive == Len(entrants) > 0 /\ ~claimed

\* A successful close_raffle pays the lamports of the raffle state account
\* to the raffle manager and removes the record.
CloseRefundsManager ==
    (Called("close_raffle") /\ last'.err = "Ok") =>
        /\ last'.caller \in {raffle_manager, UpgradeAuthority}
        /\ ~exists'
        /\ raffle_lamports' = 0
        /\ lamports' = [lamports EXCEPT ![raffle_manager] = @ + raffle_lamports]

\* C13 as stated: close_raffle succeeds only for the raffle manager or the
\* upgrade authority and then pays the account's lamports to the manager;
\* a call by any other signer fails with
\* OnlyRaffleManagerOrProgramOwnerCanClose and the record stays.  Stated
\* for the calls that pass the raffle's manager as the raffle_manager
\* account, on raffles that sold a ticket.
C13_Original ==
    [][ /\ CloseRefundsManager
        /\ ( /\ Called("close_raffle")
             /\ Len(entrants) >= 1
             /\ last'.account = raffle_manager
             /\ last'.caller \notin {raffle_manager, UpgradeAuthority} ) =>
               /\ last'.err = "OnlyRaffleManagerOrProgramOwnerCanClose"
               /\ exists' ]_vars

\* C13 as amended: close_raffle succeeds only for the raffle manager or the
\* upgrade authority and then pays the account's lamports to the manager;
\* a call by any other signer fails and the record stays: with
\* CanNotCloseActiveRaffle when tickets were sold, the prize is unclaimed
\* and the raffle_manager account passed is the manager (that constraint
\* precedes the one on the signer), with
\* OnlyRaffleManagerOrProgramOwnerCanClose otherwise.
C13_CloseAuthorization ==
    [][ /\ CloseRefundsManager
        /\ ( /\ Called("close_raffle")
             /\ last'.caller \notin {raffle_manager, UpgradeAuthority} ) =>
               /\ last'.err =
                     IF CloseActive /\ last'.account = raffle_manager
                     THEN "CanNotCloseActiveRaffle"
                     ELSE "OnlyRaffleManagerOrProgramOwnerCanClose"
               /\ exists'
               /\ UNCHANGED <<record, balances>> ]_vars

\* A signer who is neither manager nor upgrade authority is refused the
\* close of a raffle whose prize was claimed.
C13_Witness ==
    /\ exists /\ claimed
    /\ last.op = "close_raffle"
    /\ last.account = raffle_manager
    /\ last.caller \notin {raffle_manager, UpgradeAuthority}
    /\ last.err = "OnlyRaffleManagerOrProgramOwnerCanClose"

\* C14: close_raffle succeeds only when claimed holds or entrants is empty;
\* while tickets were sold and the prize is unclaimed it fails for every
\* signer, the manager and the upgrade authority included, and the record
\* stays; the error is CanNotCloseActiveRaffle for every signer whenever the
\* raffle_manager account passed is the raffle's manager.
C14_CloseOnlyInactive ==
    [][ Called("close_raffle") =>
          /\ (last'.err = "Ok") => (claimed \/ Len(entrants) = 0)
          /\ CloseActive =>
                /\ last'.err # "Ok"
                /\ exists'
                /\ UNCHANGED <<record, balances>>
                /\ (last'.account = raffle_manager) =>
                       last'.err = "CanNotCloseActiveRaffle" ]_vars

\* The upgrade authority is refused the close of a raffle with an
\* unclaimed prize.
C14_Witness ==
    /\ exists /\ Len(entrants) > 0 /\ ~claimed
    /\ last.op = "close_raffle"
    /\ last.caller = UpgradeAuthority
    /\ last.account = raffle_manager
    /\ last.err = "CanNotCloseActiveRaffle"

\* C15 as stated: create_raffle with end_time <= now fails with
\* RaffleEndTimeInPast and creates no record, and every record is created
\* with end_time > now.  Stated for the calls with max_tickets >= 1.
C15_Original ==
    [][ (Called("create_raffle") /\ last'.n >= 1) =>
          /\ (last'.end_time <= now) =>
                (last'.err = "RaffleEndTimeInPast" /\ ~exists')
          /\ (last'.err = "Ok") => end_time' > now ]_vars

\* C16 as stated: create_raffle with max_tickets = 0 fails with
\* MaxTicketsIsZero (ZeroCapacity) and creates no record, and every record
\* has max_tickets >= 1.  Stated for the calls with end_time > now.
C16_Original ==
    [][ (Called("create_raffle") /\ last'.end_time > now) =>
          /\ (last'.n = 0) => (last'.err = "MaxTicketsIsZero" /\ ~exists')
          /\ exists' => max_tickets' >= 1 ]_vars

\* C17: create_raffle with ticket_price * max_tickets beyond u64 fails with
\* RaffleTooLarge and creates no record; so for every record and every
\* n <= max_tickets the product ticket_price * n fits: the total of a
\* buy_tickets call that passes the ticket constraint and the prize of
\* claim_prize are computed without overflow.
C17_NoOverflow ==
    /\ [][ (Called("create_raffle") /\ last'.price * last'.n > MaxU64) =>
              (last'.err = "RaffleTooLarge" /\ ~exists') ]_vars
    /\ [](exists =>
            /\ \A n \in 0..max_tickets : ticket_price * n <= MaxU64
            /\ \A n \in Counts : BuyFits(n) => checked_mul(ticket_price, n) # None
            /\ prize_amount(FALSE) # None
            /\ prize_amount(TRUE) = ticket_price * Len(entrants))
    /\ [](last.op \in {"buy_tickets", "claim_prize"} => last.err # "Panic")

\* A create_raffle call whose maximal prize does not fit is refused.
C17_Witness ==
    /\ ~exists
    /\ last.op = "create_raffle" /\ last.err = "RaffleTooLarge"
    /\ last.price * last.n > MaxU64

\* The draw was started and no winner is set.
DrawRequested == exists /\ draw_winner_started /\ winner_index = None

C19_RoundTrip ==
    /\ (last.op = "serialize_to_account") =>
          /\ last.err = "Ok"
          /\ Len(account_data) = MaxSizeInBytes(raffle_state)
          /\ 4 + last.n <= Len(account_data)
    /\ (last.op = "deserialize_from_account") =>
          /\ deserialized.ok
          /\ deserialized.state.authority = raffle_state.authority
          /\ deserialized.state.ticket_price = raffle_state.ticket_price
          /\ deserialized.state.end_time = raffle_state.end_time
          /\ deserialized.state.winner = raffle_state.winner
          /\ deserialized.state.max_tickets = raffle_state.max_tickets
          /\ deserialized.state.claimed = raffle_state.claimed
          /\ deserialized.state.entrants = raffle_state.entrants

\* A state with one entrant of MaxTickets, no winner and a two-byte price
\* was read back from account data whose unused tail is not zero.
C19_Witness ==
    /\ last.op = "deserialize_from_account" /\ last.err = "Ok"
    /\ raffle_state.max_tickets = MaxTickets
    /\ Len(raffle_state.entrants) = 1
    /\ raffle_state.winner = <<>>
    /\ raffle_state.ticket_price = 258
    /\ account_data[Len(account_data)] = 127
    /\ deserialized.state = raffle_state

\* C20: buy_tickets is one atomic step.  A successful call passed the
\* ended, ticket and overflow checks, debits the buyer by
\* ticket_price * count, credits the raffle account by the same amount and
\* appends count copies of the buyer; a failed call, the one whose transfer
\* fails for lack of lamports included, changes neither entrants nor any
\* balance; so the raffle balance and the entrants always change together.
C20_BuyAtomic ==
    [][ Called("buy_tickets") =>
          LET n == last'.n
              buyer == last'.caller
              total == ticket_price * n
          IN  /\ (last'.err = "Ok") =>
                    /\ ~is_raffle_over
                    /\ Len(entrants) + n <= max_tickets
                    /\ total <= MaxU64
                    /\ lamports[buyer] >= total
                    /\ lamports' = [lamports EXCEPT ![buyer] = @ - total]
                    /\ raffle_lamports' = raffle_lamports + total
                    /\ entrants' = entrants \o [i \in 1..n |-> buyer]
              /\ (last'.err # "Ok") => UNCHANGED <<entrants, balances>>
              /\ ( /\ ~is_raffle_over
                   /\ Len(entrants) + n <= max_tickets
                   /\ lamports[buyer] < total ) =>
                     last'.err = "InsufficientLamports"
              /\ raffle_lamports' - raffle_lamports =
                     ticket_price * (Len(entrants') - Len(entrants)) ]_vars

\* A buy whose transfer failed: the buyer holds less than the price, and
\* no entrant was appended.
C20_Witness ==
    /\ last.op = "buy_tickets" /\ last.err = "InsufficientLamports"
    /\ last.n >= 1
    /\ lamports[last.caller] < ticket_price * last.n
    /\ entrants = <<>>
    /\ raffle_lamports = RentLamports

\* C21: draw_winner_callback never succeeds before the draw was started: a
\* callback on a record whose draw_winner_started is false fails with
\* DrawWinnerNotStarted and leaves winner_index as it is, so in every
\* reachable state a set winner_index implies draw_winner_started; and while
\* the record exists no step resets draw_winner_started once it is true.
C21_SettleOnlyAfterRequest ==
    /\ [](winner_index # None => draw_winner_started)
    /\ [][ (Called("draw_winner_callback") /\ ~draw_winner_started) =>
              /\ last'.err = "DrawWinnerNotStarted"
              /\ winner_index' = winner_index ]_vars
    /\ [][ (draw_winner_started /\ exists') => draw_winner_started' ]_vars

\* The VRF identity's callback on a raffle that is over and holds a ticket,
\* refused because the draw was not started.
C21_Witness ==
    /\ exists /\ ~draw_winner_started /\ winner_index = None
    /\ Len(entrants) >= 1 /\ is_raffle_over
    /\ last.op = "draw_winner_callback"
    /\ last.caller = VRF_PROGRAM_IDENTITY
    /\ last.err = "DrawWinnerNotStarted"

TicketSold == exists /\ Len(entrants) >= 1

\* The instruction that takes a raffle with a sold ticket further can
\* succeed: the clock can advance while the raffle is not over, then the
\* manager can start the draw, the VRF identity can call back, the winner
\* can claim and the manager can close.
NextStepEnabled ==
    IF ~is_raffle_over THEN ENABLED Tick
    ELSE IF winner_index = None /\ ~draw_winner_started
    THEN ENABLED ManagerStartsDraw
    ELSE IF winner_index = None THEN ENABLED VrfCallsBack
    ELSE IF ~claimed THEN ENABLED WinnerClaims
    ELSE ENABLED ManagerCloses

====
